---- MODULE Spec2Model ----
(***************************************************************************)
(* Brain Wave daily planner: the markdown schedule parser, the time        *)
(* utilities, the schedule store (edit / delete / reorder / clear), the    *)
(* completion map, the persisted records and the reminder scheduler.       *)
(*                                                                         *)
(* Strings are sequences of one-character strings, so that split, trim     *)
(* and the two regular expressions are computed character by character.    *)
(***************************************************************************)
EXTENDS Integers, Sequences, FiniteSets, TLC

(***************************************************************************)
(* Characters and string helpers (String.prototype.trim / split / includes)*)
(***************************************************************************)
WhiteSpace == {" ", "\n", "\t", "\r"}

Digits == {"0", "1", "2", "3", "4", "5", "6", "7", "8", "9"}

\* The characters the regular expression dot does not match.
LineTerminators == {"\n", "\r"}

Min(S) == CHOOSE x \in S : \A y \in S : x <= y

Max(S) == CHOOSE x \in S : \A y \in S : x >= y

\* s.trim(): from the first to the last character that is no white space
Trim(s) ==
  LET kept == {i \in 1..Len(s) : s[i] \notin WhiteSpace}
  IN IF kept = {} THEN <<>> ELSE SubSeq(s, Min(kept), Max(kept))

\* s.includes(c) for a one-character c
Includes(s, c) == \E i \in 1..Len(s) : s[i] = c

\* whether the separator d occurs in s at position i
MatchesAt(s, d, i) ==
  /\ i + Len(d) - 1 <= Len(s)
  /\ \A k \in 1..Len(d) : s[i + k - 1] = d[k]

\* the first occurrence of the separator d in s at or after i (0 if none)
NextSeparator(s, d, i) ==
  LET hits == {p \in i..Len(s) : MatchesAt(s, d, p)}
  IN IF hits = {} THEN 0 ELSE Min(hits)

\* s.split(d) for a non-empty separator d: left to right, non-overlapping
RECURSIVE SplitFrom(_, _, _)
SplitFrom(s, d, i) ==
  LET p == NextSeparator(s, d, i)
  IN IF p = 0 THEN <<SubSeq(s, i, Len(s))>>
     ELSE <<SubSeq(s, i, p - 1)>> \o SplitFrom(s, d, p + Len(d))

Split(s, d) == SplitFrom(s, d, 1)

\* parts.join(d)
RECURSIVE Join(_, _)
Join(parts, d) ==
  IF parts = <<>> THEN <<>>
  ELSE IF Len(parts) = 1 THEN parts[1]
  ELSE parts[1] \o d \o Join(Tail(parts), d)

\* the first position >= i of s that holds no white space (Len(s)+1 if none)
SkipSpace(s, i) ==
  Min({j \in i..Len(s) : s[j] \notin WhiteSpace} \cup {Len(s) + 1})

\* the end of the longest run of dot-matched characters starting at i
DotRunEnd(s, i) ==
  Min({j \in i..Len(s) : s[j] \in LineTerminators} \cup {Len(s) + 1}) - 1

(***************************************************************************)
(* parsePlannerContent                                                     *)
(***************************************************************************)
\* positions e where "AM" or "PM" stands, followed by \s* and a colon
AmPmColonAt(line, e) ==
  /\ e + 1 <= Len(line)
  /\ line[e] \in {"A", "P"}
  /\ line[e + 1] = "M"
  /\ LET c == SkipSpace(line, e + 2) IN c <= Len(line) /\ line[c] = ":"

\* the starts from which .* can run up to position e
DotStarts(line, e) ==
  {s \in 1..e : \A k \in s..(e - 1) : line[k] \notin LineTerminators}

\* timeAndTitle.match(/(.*(?:AM|PM))\s*:\s*(.*)/): the leftmost start, the
\* greedy (last) AM|PM reachable from it, and the two groups; matched is
\* FALSE when the expression matches nowhere.
HeaderMatch(line) ==
  LET cands == {e \in 1..Len(line) : AmPmColonAt(line, e)}
  IN IF cands = {} THEN [matched |-> FALSE, g1 |-> <<>>, g2 |-> <<>>]
     ELSE LET start == Min(UNION {DotStarts(line, e) : e \in cands})
              e     == Max({x \in cands : start \in DotStarts(line, x)})
              colon == SkipSpace(line, e + 2)
              from  == SkipSpace(line, colon + 1)
          IN [matched |-> TRUE,
              g1 |-> SubSeq(line, start, e + 1),
              g2 |-> SubSeq(line, from, DotRunEnd(line, from))]

\* line.replace(/^[*\-]\s*/, '').trim()
StripBullet(line) ==
  IF line # <<>> /\ Head(line) \in {"*", "-"}
  THEN Trim(SubSeq(line, SkipSpace(line, 2), Len(line)))
  ELSE Trim(line)

NonEmpty(s) == s # <<>>

RECURSIVE MapTasks(_)
MapTasks(texts) ==
  IF texts = <<>> THEN <<>>
  ELSE <<[text |-> Head(texts), notes |-> <<>>]>> \o MapTasks(Tail(texts))

RECURSIVE MapStripBullet(_)
MapStripBullet(lines) ==
  IF lines = <<>> THEN <<>>
  ELSE <<StripBullet(Head(lines))>> \o MapStripBullet(Tail(lines))

\* one fragment of the document -> one ScheduleBlock with id index
ParseBlock(block, index) ==
  LET lines        == Split(Trim(block), <<"\n">>)
      timeAndTitle == lines[1]
      taskLines    == Tail(lines)
      match        == HeaderMatch(timeAndTitle)
      parts        == Split(timeAndTitle, <<":">>)
      tasks        == MapTasks(SelectSeq(MapStripBullet(taskLines), NonEmpty))
  IN IF match.matched /\ match.g1 # <<>> /\ match.g2 # <<>>
     THEN [id |-> index, time |-> Trim(match.g1), title |-> Trim(match.g2),
           tasks |-> tasks]
     ELSE [id |-> index, time |-> Trim(Head(parts)),
           title |-> Trim(Join(Tail(parts), <<":">>)), tasks |-> tasks]

\* block.trim() !== '' && block.includes(':')
IsBlockFragment(block) == Trim(block) # <<>> /\ Includes(block, ":")

\* Faulty: fragments without a colon are kept
parsePlannerContentKeepingColonless(content) ==
  IF content = <<>> THEN <<>>
  ELSE LET kept(block) == Trim(block) # <<>>
           blocks == SelectSeq(Split(content, <<"*", "*">>), kept)
       IN [i \in 1..Len(blocks) |-> ParseBlock(blocks[i], i - 1)]

parsePlannerContent(content) ==
  IF content = <<>> THEN <<>>
  ELSE LET blocks == SelectSeq(Split(content, <<"*", "*">>), IsBlockFragment)
       IN [i \in 1..Len(blocks) |-> ParseBlock(blocks[i], i - 1)]

(***************************************************************************)
(* Responses of the generation collaborator (generatePlannerSchedule)      *)
(***************************************************************************)
\* "**7:00 AM - 8:00 AM: Morning**\n* Eat breakfast\n* Brush teeth\n\n
\*  **8:00 AM - 9:00 AM: Work: Deep Focus**\n* Write report"
ExampleDoc ==
  <<"*", "*", "7", ":", "0", "0", " ", "A", "M", " ", "-", " ", "8", ":",
    "0", "0", " ", "A", "M", ":", " ", "M", "o", "r", "n", "i", "n", "g",
    "*", "*", "\n", "*", " ", "E", "a", "t", " ", "b", "r", "e", "a", "k",
    "f", "a", "s", "t", "\n", "*", " ", "B", "r", "u", "s", "h", " ", "t",
    "e", "e", "t", "h", "\n", "\n", "*", "*", "8", ":", "0", "0", " ", "A",
    "M", " ", "-", " ", "9", ":", "0", "0", " ", "A", "M", ":", " ", "W",
    "o", "r", "k", ":", " ", "D", "e", "e", "p", " ", "F", "o", "c", "u",
    "s", "*", "*", "\n", "*", " ", "W", "r", "i", "t", "e", " ", "r", "e",
    "p", "o", "r", "t">>

\* "**7:00 AM - 7:01 AM: M\n* a\n* b\n**7:01 AM - 8:00 AM: W\n* c": the bold
\* marker is not closed, so the bullets stay in the header's fragment.
OpenDoc ==
  <<"*", "*", "7", ":", "0", "0", " ", "A", "M", " ", "-", " ", "7", ":",
    "0", "1", " ", "A", "M", ":", " ", "M", "\n", "*", " ", "a", "\n", "*",
    " ", "b", "\n", "*", "*", "7", ":", "0", "1", " ", "A", "M", " ", "-",
    " ", "8", ":", "0", "0", " ", "A", "M", ":", " ", "W", "\n", "*", " ",
    "c">>

\* "ok": a reply without any block
NoBlockDoc == <<"o", "k">>

\* "**Later: L\n**7:01 AM - 8:00 AM: W": the first block has no time of day
UntimedDoc ==
  <<"*", "*", "L", "a", "t", "e", "r", ":", " ", "L", "\n", "*", "*", "7",
   ":", "0", "1", " ", "A", "M", " ", "-", " ", "8", ":", "0", "0", " ",
   "A", "M", ":", " ", "W">>

Docs == {ExampleDoc, OpenDoc, NoBlockDoc, UntimedDoc}

(***************************************************************************)
(* Time utilities (PlannerDisplay)                                         *)
(***************************************************************************)
\* JavaScript null / undefined; a present value is never one of the two.
Null == [null |-> TRUE]

Undefined == [undefined |-> TRUE]

DigitVal(c) == CHOOSE n \in 0..9 : ToString(n) = c

IsDigitAt(s, i) == i >= 1 /\ i <= Len(s) /\ s[i] \in Digits

\* /\s*(AM|PM)/i from position i on
AmPmAfter(s, i) ==
  LET j == SkipSpace(s, i)
  IN /\ j + 1 <= Len(s)
     /\ s[j] \in {"A", "a", "P", "p"}
     /\ s[j + 1] \in {"M", "m"}

\* whether /(\d{1,2}):(\d{2})\s*(AM|PM)/i matches at p with n hour digits
TimeMatchAt(s, p, n) ==
  /\ \A k \in 0..(n - 1) : IsDigitAt(s, p + k)
  /\ p + n <= Len(s) /\ s[p + n] = ":"
  /\ IsDigitAt(s, p + n + 1) /\ IsDigitAt(s, p + n + 2)
  /\ AmPmAfter(s, p + n + 3)

\* Faulty: the hour 12 is never converted (12 AM stays 12)
parseTimeKeepingTwelve(timeStr) ==
  IF timeStr = <<>> THEN Null
  ELSE
    LET s     == Trim(timeStr)
        found == {p \in 1..Len(s) : TimeMatchAt(s, p, 2) \/ TimeMatchAt(s, p, 1)}
    IN IF found = {} THEN Null
       ELSE
         LET p       == Min(found)
             n       == IF TimeMatchAt(s, p, 2) THEN 2 ELSE 1
             hours   == IF n = 2 THEN 10 * DigitVal(s[p]) + DigitVal(s[p + 1])
                        ELSE DigitVal(s[p])
             minutes == 10 * DigitVal(s[p + n + 1]) + DigitVal(s[p + n + 2])
             period  == s[SkipSpace(s, p + n + 3)]
             h       == IF period \in {"P", "p"} /\ hours < 12 THEN hours + 12
                        ELSE hours
         IN [minutes |-> h * 60 + minutes]

\* parseTime: minutes after today's midnight of the parsed instant (the Date
\* set by setHours(h, minutes, 0, 0)), or Null.
parseTime(timeStr) ==
  IF timeStr = <<>> THEN Null
  ELSE
    LET s     == Trim(timeStr)
        found == {p \in 1..Len(s) : TimeMatchAt(s, p, 2) \/ TimeMatchAt(s, p, 1)}
    IN IF found = {} THEN Null
       ELSE
         LET p       == Min(found)
             n       == IF TimeMatchAt(s, p, 2) THEN 2 ELSE 1
             hours   == IF n = 2 THEN 10 * DigitVal(s[p]) + DigitVal(s[p + 1])
                        ELSE DigitVal(s[p])
             minutes == 10 * DigitVal(s[p + n + 1]) + DigitVal(s[p + n + 2])
             period  == s[SkipSpace(s, p + n + 3)]
             h       == IF period \in {"P", "p"} /\ hours < 12 THEN hours + 12
                        ELSE IF period \in {"A", "a"} /\ hours = 12 THEN 0
                        ELSE hours
         IN [minutes |-> h * 60 + minutes]

\* block.time.split('-').map(parseTime)
TimeParts(block) ==
  LET parts == Split(block.time, <<"-">>)
  IN [i \in 1..Len(parts) |-> parseTime(parts[i])]

\* the alert of the early return: no document
ExportRefused == [alert |-> TRUE, document |-> Null]

\* the .ics document handed to the browser as a download: the event's
\* start and end (minutes after today's midnight) and its summary
ExportDocument(block, startDate, endDate) ==
  [alert |-> FALSE,
   document |-> [DTSTART |-> startDate.minutes, DTEND |-> endDate.minutes,
                 SUMMARY |-> block.title]]

\* Faulty: only the start of the range is tested
handleAddToCalendarTestingStartOnly(block) ==
  LET timeParts == TimeParts(block)
  IN IF Len(timeParts) < 2 \/ timeParts[1] = Null
     THEN ExportRefused
     ELSE ExportDocument(block, timeParts[1], timeParts[1])

handleAddToCalendar(block) ==
  LET timeParts == TimeParts(block)
  IN IF Len(timeParts) < 2 \/ timeParts[1] = Null \/ timeParts[2] = Null
     THEN ExportRefused
     ELSE ExportDocument(block, timeParts[1], timeParts[2])

\* Faulty: a start time that does not parse counts as 7:00 AM
BlockStartTimeDefaulting(block) ==
  IF parseTime(Head(Split(block.time, <<"-">>))) = Null
  THEN [minutes |-> 7 * 60]
  ELSE parseTime(Head(Split(block.time, <<"-">>)))

\* parseTime(block.time.split('-')[0])
BlockStartTime(block) == parseTime(Head(Split(block.time, <<"-">>)))

(***************************************************************************)
(* Values of the store                                                     *)
(***************************************************************************)
\* The schedule state is Null or Some(blocks), blocks a ScheduleBlock[].
Some(blocks) == [blocks |-> blocks]

\* `${blockId}-${taskIndex}`
TaskKey(blockId, taskIndex) == ToString(blockId) \o "-" \o ToString(taskIndex)

EmptyMap == [k \in {} |-> TRUE]

\* completedTasks[taskId], read for its truthiness
IsCompleted(completed, key) == key \in DOMAIN completed /\ completed[key]

\* {...prev, [taskId]: value}
MapSet(completed, key, value) ==
  [k \in DOMAIN completed \cup {key} |-> IF k = key THEN value ELSE completed[k]]

\* JSON.parse(JSON.stringify(tasks)): an undefined array entry is written as
\* null; strings, numbers and objects come back as they were.
JSONTasks(tasks) ==
  [i \in 1..Len(tasks) |-> IF tasks[i] = Undefined THEN Null ELSE tasks[i]]

\* JSON.parse(JSON.stringify(blocks))
JSONClone(blocks) ==
  [i \in 1..Len(blocks) |-> [blocks[i] EXCEPT !.tasks = JSONTasks(@)]]

\* newSchedule.find(block => block.id === blockId): its position, 0 if none
FindBlock(blocks, blockId) ==
  LET hits == {i \in 1..Len(blocks) : blocks[i].id = blockId}
  IN IF hits = {} THEN 0 ELSE Min(hits)

\* tasks[taskIndex] exists and is truthy (an object)
HasTask(tasks, taskIndex) ==
  /\ taskIndex >= 0 /\ taskIndex < Len(tasks)
  /\ tasks[taskIndex + 1] \notin {Null, Undefined}

\* tasks.filter((_, index) => index !== taskIndex)
RemoveAt(tasks, taskIndex) ==
  IF taskIndex >= 0 /\ taskIndex < Len(tasks)
  THEN SubSeq(tasks, 1, taskIndex) \o SubSeq(tasks, taskIndex + 2, Len(tasks))
  ELSE tasks

\* tasks.splice(taskIndex, 0, task) for taskIndex >= 0: past the end the
\* task is appended
InsertAt(tasks, taskIndex, task) ==
  LET at == IF taskIndex > Len(tasks) THEN Len(tasks) ELSE taskIndex
  IN SubSeq(tasks, 1, at) \o <<task>> \o SubSeq(tasks, at + 1, Len(tasks))

\* const [removedTask] = tasks.splice(taskIndex, 1)
RemovedTask(tasks, taskIndex) ==
  IF taskIndex >= 0 /\ taskIndex < Len(tasks) THEN tasks[taskIndex + 1]
  ELSE Undefined

(***************************************************************************)
(* Schedule store: the state updaters of App                               *)
(***************************************************************************)
\* Each operator whose comment begins "Faulty:" is a deliberately wrong
\* variant of the operator that follows it; the properties at the end of
\* the module are required to tell the two apart.

\* Faulty: replaces the whole task, losing its notes
handleUpdateTaskTextLosingNotes(currentSchedule, blockId, taskIndex, newText) ==
  IF currentSchedule = Null THEN Null
  ELSE
    LET newSchedule   == JSONClone(currentSchedule.blocks)
        blockToUpdate == FindBlock(newSchedule, blockId)
    IN IF blockToUpdate # 0 /\ HasTask(newSchedule[blockToUpdate].tasks, taskIndex)
       THEN Some([newSchedule EXCEPT
                    ![blockToUpdate].tasks[taskIndex + 1] =
                       [text |-> newText, notes |-> <<>>]])
       ELSE Some(newSchedule)

handleUpdateTaskText(currentSchedule, blockId, taskIndex, newText) ==
  IF currentSchedule = Null THEN Null
  ELSE
    LET newSchedule   == JSONClone(currentSchedule.blocks)
        blockToUpdate == FindBlock(newSchedule, blockId)
    IN IF blockToUpdate # 0 /\ HasTask(newSchedule[blockToUpdate].tasks, taskIndex)
       THEN Some([newSchedule EXCEPT
                    ![blockToUpdate].tasks[taskIndex + 1].text = newText])
       ELSE Some(newSchedule)

\* Faulty: the text is tested without trimming
SavesEditingUntrimmed(editingText) == editingText # <<>>

\* if (editingText.trim() !== '')
SavesEditing(editingText) == Trim(editingText) # <<>>

\* PlannerDisplay's handleSaveEditing for the text in the input: the
\* schedule after it, and the edit mode it leaves
handleSaveEditing(currentSchedule, blockId, taskIndex, editingText) ==
  [schedule      |-> IF SavesEditing(editingText)
                     THEN handleUpdateTaskText(currentSchedule, blockId,
                                               taskIndex, editingText)
                     ELSE currentSchedule,
   editingTaskId |-> Null,
   editingText   |-> <<>>]

handleUpdateTaskNotes(currentSchedule, blockId, taskIndex, newNotes) ==
  IF currentSchedule = Null THEN Null
  ELSE
    LET newSchedule   == JSONClone(currentSchedule.blocks)
        blockToUpdate == FindBlock(newSchedule, blockId)
    IN IF blockToUpdate # 0 /\ HasTask(newSchedule[blockToUpdate].tasks, taskIndex)
       THEN Some([newSchedule EXCEPT
                    ![blockToUpdate].tasks[taskIndex + 1].notes = newNotes])
       ELSE Some(newSchedule)

\* Faulty: removes the index from every block, whatever its id
\* Faulty: the last task of the block is removed, whatever the index
handleDeleteTaskRemovingLast(currentSchedule, blockId, taskIndex) ==
  IF currentSchedule = Null THEN Null
  ELSE Some([k \in 1..Len(currentSchedule.blocks) |->
               IF /\ currentSchedule.blocks[k].id = blockId
                  /\ taskIndex < Len(currentSchedule.blocks[k].tasks)
               THEN [currentSchedule.blocks[k] EXCEPT
                       !.tasks = SubSeq(@, 1, Len(@) - 1)]
               ELSE currentSchedule.blocks[k]])

handleDeleteTaskInEveryBlock(currentSchedule, blockId, taskIndex) ==
  IF currentSchedule = Null THEN Null
  ELSE
    LET blocks == currentSchedule.blocks
    IN Some([i \in 1..Len(blocks) |->
               [blocks[i] EXCEPT !.tasks = RemoveAt(@, taskIndex)]])

\* Faulty: drops a block whose task list becomes empty
handleDeleteTaskDroppingEmptyBlock(currentSchedule, blockId, taskIndex) ==
  IF currentSchedule = Null THEN Null
  ELSE
    LET blocks == currentSchedule.blocks
        mapped == [i \in 1..Len(blocks) |->
                     IF blocks[i].id = blockId
                     THEN [blocks[i] EXCEPT !.tasks = RemoveAt(@, taskIndex)]
                     ELSE blocks[i]]
        Keeps(block) == block.id # blockId \/ block.tasks # <<>>
    IN Some(SelectSeq(mapped, Keeps))

\* Faulty: deleting a task removes its completion flag
completedAfterDeleteDroppingFlag(completed, blockId, taskIndex) ==
  [k \in DOMAIN completed \ {TaskKey(blockId, taskIndex)} |-> completed[k]]

\* handleDeleteTask calls setSchedule only: the completion map is the one
\* of the render before
completedAfterDelete(completed, blockId, taskIndex) == completed

handleDeleteTask(currentSchedule, blockId, taskIndex) ==
  IF currentSchedule = Null THEN Null
  ELSE
    LET blocks == currentSchedule.blocks
    IN Some([i \in 1..Len(blocks) |->
               IF blocks[i].id = blockId
               THEN [blocks[i] EXCEPT !.tasks = RemoveAt(@, taskIndex)]
               ELSE blocks[i]])

\* whether handleReorderTasks returns currentSchedule itself (no new array)
ReorderReturnsCurrent(currentSchedule, source, destination) ==
  \/ currentSchedule = Null
  \/ FindBlock(currentSchedule.blocks, source.blockId) = 0
  \/ FindBlock(currentSchedule.blocks, destination.blockId) = 0

\* Faulty: inserts the task without removing it from the source list
\* Faulty: without a destination block the task is taken out all the same
handleReorderTasksDroppingTask(currentSchedule, source, destination) ==
  IF currentSchedule = Null THEN Null
  ELSE IF FindBlock(currentSchedule.blocks, source.blockId) = 0
  THEN currentSchedule
  ELSE
    LET newSchedule      == JSONClone(currentSchedule.blocks)
        sourceBlock      == FindBlock(newSchedule, source.blockId)
        destinationBlock == FindBlock(newSchedule, destination.blockId)
        removedTask      == RemovedTask(newSchedule[sourceBlock].tasks,
                                        source.taskIndex)
        spliced          == [newSchedule EXCEPT ![sourceBlock].tasks =
                               RemoveAt(@, source.taskIndex)]
    IN IF destinationBlock = 0 THEN Some(spliced)
       ELSE Some([spliced EXCEPT ![destinationBlock].tasks =
                    InsertAt(@, destination.taskIndex, removedTask)])

handleReorderTasksKeepingSource(currentSchedule, source, destination) ==
  IF ReorderReturnsCurrent(currentSchedule, source, destination)
  THEN currentSchedule
  ELSE
    LET newSchedule      == JSONClone(currentSchedule.blocks)
        sourceBlock      == FindBlock(newSchedule, source.blockId)
        destinationBlock == FindBlock(newSchedule, destination.blockId)
        removedTask      == RemovedTask(newSchedule[sourceBlock].tasks,
                                        source.taskIndex)
    IN Some([newSchedule EXCEPT ![destinationBlock].tasks =
               InsertAt(@, destination.taskIndex, removedTask)])

handleReorderTasks(currentSchedule, source, destination) ==
  IF ReorderReturnsCurrent(currentSchedule, source, destination)
  THEN currentSchedule
  ELSE
    LET newSchedule      == JSONClone(currentSchedule.blocks)
        sourceBlock      == FindBlock(newSchedule, source.blockId)
        destinationBlock == FindBlock(newSchedule, destination.blockId)
        removedTask      == RemovedTask(newSchedule[sourceBlock].tasks,
                                        source.taskIndex)
        spliced          == [newSchedule EXCEPT ![sourceBlock].tasks =
                               RemoveAt(@, source.taskIndex)]
    IN Some([spliced EXCEPT ![destinationBlock].tasks =
               InsertAt(@, destination.taskIndex, removedTask)])

\* block.tasks.filter((_, taskIndex) => !completedTasks[`${block.id}-${taskIndex}`])
\* over the entries from position i (1-based) on
RECURSIVE FilterNotCompleted(_, _, _, _)
FilterNotCompleted(tasks, blockId, completed, i) ==
  IF i > Len(tasks) THEN <<>>
  ELSE IF IsCompleted(completed, TaskKey(blockId, i - 1))
       THEN FilterNotCompleted(tasks, blockId, completed, i + 1)
       ELSE <<tasks[i]>> \o FilterNotCompleted(tasks, blockId, completed, i + 1)

\* Faulty: reads the flags of the first block's keys for every block
handleClearCompletedTasksByIndex(currentSchedule, completed) ==
  IF currentSchedule = Null THEN Null
  ELSE
    LET blocks == currentSchedule.blocks
    IN Some([i \in 1..Len(blocks) |->
               [blocks[i] EXCEPT !.tasks =
                  FilterNotCompleted(@, blocks[1].id, completed, 1)]])

handleClearCompletedTasks(currentSchedule, completed) ==
  IF currentSchedule = Null THEN Null
  ELSE
    LET blocks == currentSchedule.blocks
    IN Some([i \in 1..Len(blocks) |->
               [blocks[i] EXCEPT !.tasks =
                  FilterNotCompleted(@, blocks[i].id, completed, 1)]])

\* handleToggleTask: the new completion map
handleToggleTask(completed, blockId, taskIndex) ==
  LET taskId == TaskKey(blockId, taskIndex)
  IN MapSet(completed, taskId, ~IsCompleted(completed, taskId))

\* Faulty: the completion map survives the start of a generation
completedKeptAtGenerate(completed) == completed

\* handleGenerate, before the request: setCompletedTasks({})
completedAtGenerate(completed) == EmptyMap

\* Faulty: the schedule survives the start of a generation
scheduleKeptAtGenerate(currentSchedule) == currentSchedule

\* handleGenerate, before the request: setSchedule(null)
scheduleAtGenerate(currentSchedule) == Null

\* Faulty: the map is left as it was
completedAfterClearKept(completed) == completed

\* handleClearCompletedTasks: setCompletedTasks({})
completedAfterClear(completed) == EmptyMap

(***************************************************************************)
(* Durable client storage (localStorage records)                           *)
(***************************************************************************)
Absent == [absent |-> TRUE]

\* a record holding the JSON text of value
Stored(value) == [json |-> value]

\* a record holding text that JSON.parse rejects
Corrupt == [corrupt |-> TRUE]

\* Faulty: a null schedule leaves the record as it is
saveScheduleEffectKeepingRecord(currentSchedule, record) ==
  IF currentSchedule # Null THEN Stored(JSONClone(currentSchedule.blocks))
  ELSE record

\* the save-schedule effect: setItem(JSON.stringify(schedule)) for a truthy
\* schedule, removeItem otherwise
saveScheduleEffect(currentSchedule, record) ==
  IF currentSchedule # Null THEN Stored(JSONClone(currentSchedule.blocks))
  ELSE Absent

\* the schedule state initializer: JSON.parse of the record; null if it is
\* absent or if JSON.parse throws
loadSchedule(record) ==
  IF record \in {Absent, Corrupt} THEN Null ELSE Some(record.json)

\* the schedule record after the initializer: its catch removes the record
scheduleRecordAfterLoad(record) ==
  IF record = Corrupt THEN Absent ELSE record

\* the save-completed effect: setItem(JSON.stringify(completedTasks))
saveCompletedEffect(completed) == Stored(completed)

\* the load-completed effect on mount: setCompletedTasks(JSON.parse(text))
\* for a record that is present; the catch leaves the initial {} and the
\* record alone
loadCompleted(record) ==
  IF record \in {Absent, Corrupt} THEN EmptyMap ELSE record.json

\* Faulty: the save effect of the first commit runs before the load effect
mountCompletedSavingFirst(record) ==
  LET firstSave == saveCompletedEffect(EmptyMap)
      loaded    == loadCompleted(firstSave)
  IN [map |-> loaded, record |-> saveCompletedEffect(loaded)]

\* The effects of the completion map on mount, in the order of their
\* declaration: the load effect reads the record; the save effect writes
\* the initial {}; if the load effect set the state, the next commit's save
\* effect writes the loaded map.
mountCompleted(record) ==
  LET loaded    == loadCompleted(record)
      firstSave == saveCompletedEffect(EmptyMap)
      stateSet  == record \notin {Absent, Corrupt}
  IN [map    |-> loaded,
      record |-> IF stateSet THEN saveCompletedEffect(loaded) ELSE firstSave]

\* Faulty: a corrupt muted record mutes the app
loadMutedCorruptAsTrue(record) ==
  IF record = Absent THEN FALSE
  ELSE IF record = Corrupt THEN TRUE
  ELSE record.json

\* the isMuted state initializer: storedMute ? JSON.parse(storedMute) : false,
\* false if JSON.parse throws
loadMuted(record) ==
  IF record \in {Absent, Corrupt} THEN FALSE ELSE record.json

\* the save-muted effect: setItem(JSON.stringify(isMuted))
saveMutedEffect(muted) == Stored(muted)

(***************************************************************************)
(* PlannerDisplay: rendering and the reminder effect                       *)
(***************************************************************************)
\* The task list renders task.text of every entry: an entry that is null
\* or undefined makes the render throw, and React unmounts the whole tree.
RenderThrows(currentSchedule) ==
  /\ currentSchedule # Null
  /\ \E i \in 1..Len(currentSchedule.blocks) :
       \E j \in 1..Len(currentSchedule.blocks[i].tasks) :
         currentSchedule.blocks[i].tasks[j] \in {Null, Undefined}

\* Faulty: the interval is created whatever the permission is
ReminderArmedWithoutPermission(currentSchedule, minutes, perm) ==
  /\ minutes # 0
  /\ currentSchedule # Null
  /\ Len(currentSchedule.blocks) # 0

\* the reminder effect creates its interval unless it returns early
ReminderArmed(currentSchedule, minutes, perm) ==
  /\ minutes # 0
  /\ perm = "granted"
  /\ currentSchedule # Null
  /\ Len(currentSchedule.blocks) # 0

(***************************************************************************)
(* Bounds and inputs                                                       *)
(***************************************************************************)
\* block ids and task indices the handlers are called with; ids and
\* indices that do not exist are among them (no schedule has a block
\* MaxBlockId or a task at every index, and the schedules of ExampleDoc and
\* NoBlockDoc have no task and no block at all)
MaxBlockId == 2

MaxTaskIndex == 1

\* store operations and toggles applied to one generated schedule, with
\* the clock stopped (StoreSpec)
MaxEdits == 2

\* the same, while the clock runs (Spec) or the records are corrupted
\* (StartupSpec)
MaxTimedEdits == 1

\* how long the clock runs, in reminder ticks
MaxElapsed == 2

\* notifications counted per block
MaxFired == 2

\* tokens of a document handed to parsePlannerContent
MaxTokens == 4

\* parts of a time range handed to handleAddToCalendar
MaxParts == 3

BlockIds == 0..MaxBlockId

TaskIndices == 0..MaxTaskIndex

Positions == [blockId : BlockIds, taskIndex : TaskIndices]

NewTexts == {<<"x">>}

NewNotes == {<<"n">>}

\* what the input of an inline edit may hold when it is saved
EditingTexts == {<<"x">>, <<" ">>, <<>>}

\* the reminder check runs every 30000 ms: twice a minute; the clock of
\* the model counts these ticks
TicksPerMinute == 2

\* useState<number>(5)
DefaultReminder == 5

\* values of the reminder select the user picks from
ReminderOptions == {0, 1, 5}

\* the clock starts at 6:59 AM
InitialNow == (6 * 60 + 59) * TicksPerMinute

NoError == <<>>

GenerationError == <<"F", "a", "i", "l", "e", "d">>

(***************************************************************************)
(* State                                                                   *)
(***************************************************************************)
VARIABLES
  schedule,          \* App: Null or Some(blocks)
  isLoading,         \* App: a generation request is pending
  requests,          \* generatePlannerSchedule calls that have not settled
  error,             \* App: NoError or the message shown
  reminderTime,      \* App: lead time in minutes
  completedTasks,    \* App: composite key -> boolean
  storedSchedule,    \* localStorage record of the schedule
  storedCompleted,   \* localStorage record of the completion map
  isMuted,           \* App: sounds and speech are off
  storedMuted,       \* localStorage record of the muted flag
  permission,        \* Notification.permission
  permissionAsked,   \* a Notification.requestPermission() prompt is open
  notifiedBlockIds,  \* PlannerDisplay: ids of the notified blocks
  reminderTimers,    \* PlannerDisplay: live intervals of the reminder effect
  clockTimers,       \* PlannerDisplay: live intervals of the clock effect
  timerDue,          \* the tick at which the reminder interval fires next
  armedSince,        \* history: the tick since which the reminder check has
                     \* been running for this schedule and this lead time
  now,               \* the clock, in ticks after midnight
  crashed,           \* a render threw: the component tree is unmounted
  fired,             \* history: notifications shown per block id since the
                     \* schedule was generated or loaded from storage
  priorSchedule,     \* history: the schedule the last handleGenerate
                     \* replaced, kept until the next store operation
  priorCompleted,    \* history: the completion map it replaced
  lastOp,            \* history: the last generation or store operation
  edits,             \* store operations applied to the current schedule
  call,              \* a utility function called on its own, and its argument
  result             \* what that call returned

vars == <<schedule, isLoading, requests, error, reminderTime, completedTasks,
          storedSchedule, storedCompleted, isMuted, storedMuted, permission,
          permissionAsked,
          notifiedBlockIds, reminderTimers, clockTimers, timerDue,
          armedSince, now, crashed, fired,
          priorSchedule, priorCompleted, lastOp, edits, call, result>>

\* everything but the utility call
programVars == <<schedule, isLoading, requests, error, reminderTime, completedTasks,
                 storedSchedule, storedCompleted, isMuted, storedMuted,
                 permission, permissionAsked, notifiedBlockIds,
                 reminderTimers, clockTimers, timerDue, armedSince, now,
                 crashed, fired,
                 priorSchedule, priorCompleted, lastOp, edits>>

callVars == <<call, result>>

NoCall == [fn |-> "none"]

NotReturned == [returned |-> FALSE]

Returned(value) == [returned |-> TRUE, value |-> value]

appVars == <<isLoading, requests, error, reminderTime>>

mutedVars == <<isMuted, storedMuted>>

storeVars == <<schedule, storedSchedule>>

completionVars == <<completedTasks, storedCompleted>>

permissionVars == <<permission, permissionAsked>>

displayVars == <<notifiedBlockIds, reminderTimers, clockTimers, timerDue,
                 armedSince>>

\* the reminder interval exists
intervalActive == reminderTimers > 0

historyVars == <<priorSchedule, priorCompleted>>

NoneFired == [b \in BlockIds |-> 0]

\* {schedule && !isLoading && <PlannerDisplay .../>}
DisplayMounted == ~crashed /\ schedule # Null /\ ~isLoading

Mounted ==
  /\ schedule = Null
  /\ isLoading = FALSE
  /\ requests = 0
  /\ error = NoError
  /\ reminderTime = DefaultReminder
  /\ completedTasks = EmptyMap
  /\ storedSchedule = Absent
  /\ storedCompleted = Stored(EmptyMap)
  /\ isMuted = FALSE
  /\ storedMuted = Stored(FALSE)
  /\ permission = "default"
  /\ permissionAsked = FALSE
  /\ notifiedBlockIds = {}
  /\ reminderTimers = 0
  /\ clockTimers = 0
  /\ timerDue = 0
  /\ armedSince = 0
  /\ now = InitialNow
  /\ crashed = FALSE
  /\ fired = NoneFired
  /\ priorSchedule = Null
  /\ priorCompleted = EmptyMap
  /\ lastOp = "start"
  /\ edits = 0

Init == Mounted /\ call = NoCall /\ result = NotReturned

(***************************************************************************)
(* PlannerDisplay effects                                                  *)
(***************************************************************************)
\* PlannerDisplay is not rendered: its state is gone, its intervals cleared
\* Faulty: the cleanup leaves the interval running
clearIntervalLeaking(timers) == timers

\* the cleanup an effect returned: clearInterval of the interval that the
\* effect created, if it created one
clearInterval(timers) == IF timers > 0 THEN timers - 1 ELSE 0

DisplayUnmounted ==
  /\ notifiedBlockIds' = {}
  /\ reminderTimers' = clearInterval(reminderTimers)
  /\ clockTimers' = clearInterval(clockTimers)
  /\ timerDue' = 0
  /\ armedSince' = 0

\* the clock effect has no dependencies: it runs when the display mounts
ClockEffect ==
  clockTimers' = IF DisplayMounted THEN clockTimers ELSE clockTimers + 1

\* the reminder effect runs (again): the old interval is cleared, a new
\* one is created unless the effect returns early
ReminderEffect(currentSchedule, minutes, perm) ==
  /\ reminderTimers' = clearInterval(reminderTimers)
                        + (IF ReminderArmed(currentSchedule, minutes, perm)
                           THEN 1 ELSE 0)
  /\ timerDue' = IF ReminderArmed(currentSchedule, minutes, perm)
                 THEN now + 1 ELSE 0
  /\ armedSince' = IF ReminderArmed(currentSchedule, minutes, perm)
                   THEN IF intervalActive /\ minutes = reminderTime
                        THEN armedSince ELSE now
                   ELSE 0

\* PlannerDisplay mounts, or its blocks prop is a new array: the reset
\* effect empties the notified set and the reminder effect runs
BlocksEffects(currentSchedule) ==
  /\ notifiedBlockIds' = {}
  /\ ReminderEffect(currentSchedule, reminderTime, permission)

\* setSchedule(updated) with a new array while PlannerDisplay is shown:
\* the render, then the save effect and PlannerDisplay's effects
CommitSchedule(updated) ==
  /\ schedule' = updated
  /\ IF RenderThrows(updated)
     THEN /\ crashed' = TRUE
          /\ DisplayUnmounted
          /\ UNCHANGED storedSchedule
     ELSE /\ crashed' = FALSE
          /\ BlocksEffects(updated)
          /\ ClockEffect
          /\ storedSchedule' = saveScheduleEffect(updated, storedSchedule)

(***************************************************************************)
(* Generation (handleGenerate)                                             *)
(***************************************************************************)
\* the click: everything handleGenerate does before it awaits the request,
\* then the render and the effects
\* Faulty: the button stays enabled while a request is pending
GenerateDisabledNever(loading) == FALSE

\* <button onClick={handleGenerate} disabled={isLoading}>
GenerateDisabled(loading) == loading

HandleGenerate ==
  /\ ~crashed
  /\ ~GenerateDisabled(isLoading)
  /\ isLoading' = TRUE
  /\ requests' = requests + 1
  /\ error' = NoError
  /\ schedule' = scheduleAtGenerate(schedule)
  /\ completedTasks' = completedAtGenerate(completedTasks)
  /\ storedSchedule' = saveScheduleEffect(schedule', storedSchedule)
  /\ storedCompleted' = saveCompletedEffect(completedTasks')
  /\ DisplayUnmounted
  /\ fired' = NoneFired
  /\ priorSchedule' = schedule
  /\ priorCompleted' = completedTasks
  /\ lastOp' = "generate"
  /\ edits' = 0
  /\ UNCHANGED <<mutedVars, callVars>>
  /\ UNCHANGED <<reminderTime, permissionVars, now, crashed>>

\* the request resolves with the markdown text content
GenerateSuccess(content) ==
  /\ ~crashed
  /\ requests > 0
  /\ isLoading' = FALSE
  /\ requests' = requests - 1
  /\ CommitSchedule(Some(parsePlannerContent(content)))
  /\ fired' = NoneFired
  /\ lastOp' = "generated"
  /\ edits' = 0
  /\ UNCHANGED <<mutedVars, callVars>>
  /\ UNCHANGED <<error, reminderTime, completionVars, permissionVars, now,
                 historyVars>>

\* the request rejects: the catch and finally branches
GenerateFail ==
  /\ ~crashed
  /\ requests > 0
  /\ isLoading' = FALSE
  /\ requests' = requests - 1
  /\ error' = GenerationError
  /\ IF schedule # Null
     THEN BlocksEffects(schedule) /\ ClockEffect
     ELSE DisplayUnmounted
  /\ lastOp' = "failed"
  /\ UNCHANGED <<mutedVars, callVars>>
  /\ UNCHANGED <<storeVars, reminderTime, completionVars, permissionVars, now,
                 crashed, fired, historyVars, edits>>

(***************************************************************************)
(* Store operations, called from PlannerDisplay                            *)
(***************************************************************************)
CanEdit == DisplayMounted

\* the history of a store operation
Edited(op) ==
  /\ lastOp' = op
  /\ edits' = edits + 1
  /\ priorSchedule' = Null
  /\ priorCompleted' = EmptyMap

UpdateTaskText(blockId, taskIndex, newText) ==
  /\ CanEdit
  /\ CommitSchedule(handleUpdateTaskText(schedule, blockId, taskIndex, newText))
  /\ Edited("updateTaskText")
  /\ UNCHANGED <<mutedVars, callVars>>
  /\ UNCHANGED <<appVars, completionVars, permissionVars, now, fired>>

\* the inline edit of a rendered task is saved (Enter, or the input loses
\* the focus); without a call of onUpdateTaskText only PlannerDisplay's edit
\* mode changes
SaveEditing(blockId, taskIndex, editingText) ==
  /\ CanEdit
  /\ IF SavesEditing(editingText)
     THEN /\ CommitSchedule(handleSaveEditing(schedule, blockId, taskIndex,
                                              editingText).schedule)
          /\ Edited("updateTaskText")
     ELSE /\ lastOp' = "saveEditing"
          /\ UNCHANGED <<storeVars, displayVars, crashed, historyVars, edits>>
  /\ UNCHANGED <<mutedVars, callVars>>
  /\ UNCHANGED <<appVars, completionVars, permissionVars, now, fired>>

UpdateTaskNotes(blockId, taskIndex, newNotes) ==
  /\ CanEdit
  /\ CommitSchedule(handleUpdateTaskNotes(schedule, blockId, taskIndex, newNotes))
  /\ Edited("updateTaskNotes")
  /\ UNCHANGED <<mutedVars, callVars>>
  /\ UNCHANGED <<appVars, completionVars, permissionVars, now, fired>>

DeleteTask(blockId, taskIndex) ==
  /\ CanEdit
  /\ CommitSchedule(handleDeleteTask(schedule, blockId, taskIndex))
  /\ completedTasks' = completedAfterDelete(completedTasks, blockId, taskIndex)
  /\ Edited("deleteTask")
  /\ UNCHANGED <<mutedVars, callVars>>
  /\ UNCHANGED <<appVars, storedCompleted, permissionVars, now, fired>>

\* returning currentSchedule itself changes no state: nothing renders
ReorderTasks(source, destination) ==
  /\ CanEdit
  /\ IF ReorderReturnsCurrent(schedule, source, destination)
     THEN UNCHANGED vars
     ELSE /\ CommitSchedule(handleReorderTasks(schedule, source, destination))
          /\ Edited("reorderTask")
          /\ UNCHANGED <<mutedVars, callVars>>
          /\ UNCHANGED <<appVars, completionVars, permissionVars, now, fired>>

\* the checkbox of a task exists only while the task is rendered
TaskShown(blockId, taskIndex) ==
  /\ FindBlock(schedule.blocks, blockId) # 0
  /\ taskIndex < Len(schedule.blocks[FindBlock(schedule.blocks, blockId)].tasks)

ToggleTask(blockId, taskIndex) ==
  /\ CanEdit
  /\ TaskShown(blockId, taskIndex)
  /\ completedTasks' = handleToggleTask(completedTasks, blockId, taskIndex)
  /\ storedCompleted' = saveCompletedEffect(completedTasks')
  /\ Edited("toggleTask")
  /\ UNCHANGED <<mutedVars, callVars>>
  /\ UNCHANGED <<appVars, storeVars, permissionVars, displayVars, now, crashed,
                 fired>>

ClearCompletedTasks ==
  /\ CanEdit
  /\ CommitSchedule(handleClearCompletedTasks(schedule, completedTasks))
  /\ completedTasks' = completedAfterClear(completedTasks)
  /\ storedCompleted' = IF crashed' THEN storedCompleted
                        ELSE saveCompletedEffect(completedTasks')
  /\ Edited("clearCompletedTasks")
  /\ UNCHANGED <<mutedVars, callVars>>
  /\ UNCHANGED <<appVars, permissionVars, now, fired>>

(***************************************************************************)
(* Reminders                                                               *)
(***************************************************************************)
\* Faulty: a block is notified at or after its start time as well
DueBlocksNotifyingLate ==
  {i \in 1..Len(schedule.blocks) :
     LET block     == schedule.blocks[i]
         startTime == BlockStartTime(block)
     IN /\ startTime # Null
        /\ block.id \notin notifiedBlockIds
        /\ now >= (startTime.minutes - reminderTime) * TicksPerMinute}

\* the blocks the interval callback notifies at the current tick
DueBlocks ==
  {i \in 1..Len(schedule.blocks) :
     LET block     == schedule.blocks[i]
         startTime == BlockStartTime(block)
     IN /\ startTime # Null
        /\ block.id \notin notifiedBlockIds
        /\ now >= (startTime.minutes - reminderTime) * TicksPerMinute
        /\ now < startTime.minutes * TicksPerMinute}

DueIds == {schedule.blocks[i].id : i \in DueBlocks}

\* the callback of the reminder interval
ReminderTick ==
  /\ DisplayMounted
  /\ intervalActive
  /\ timerDue <= now
  /\ notifiedBlockIds' = notifiedBlockIds \cup DueIds
  /\ fired' = [b \in BlockIds |->
                 LET n == Cardinality({i \in DueBlocks : schedule.blocks[i].id = b})
                 IN IF fired[b] + n > MaxFired THEN MaxFired ELSE fired[b] + n]
  /\ reminderTimers' = IF DueIds # {}
                        THEN clearInterval(reminderTimers) + 1
                        ELSE reminderTimers
  /\ timerDue' = now + 1
  /\ UNCHANGED <<clockTimers, armedSince>>
  /\ UNCHANGED <<mutedVars, callVars>>
  /\ UNCHANGED <<appVars, storeVars, completionVars, permissionVars, now,
                 crashed, historyVars, lastOp, edits>>

\* one tick of time passes; a due interval callback runs first
Advance ==
  /\ now < InitialNow + MaxElapsed
  /\ ~(intervalActive /\ timerDue <= now)
  /\ now' = now + 1
  /\ UNCHANGED <<mutedVars, callVars>>
  /\ UNCHANGED <<appVars, storeVars, completionVars, permissionVars,
                 displayVars, crashed, fired, historyVars, lastOp, edits>>

\* handleReminderChange up to its await
ReminderChange(minutes) ==
  /\ ~crashed
  /\ minutes # reminderTime
  /\ reminderTime' = minutes
  /\ permissionAsked' = (permissionAsked \/ (minutes > 0 /\ permission = "default"))
  /\ IF DisplayMounted
     THEN ReminderEffect(schedule, minutes, permission)
     ELSE UNCHANGED <<reminderTimers, timerDue, armedSince>>
  /\ UNCHANGED clockTimers
  /\ UNCHANGED <<mutedVars, callVars>>
  /\ UNCHANGED <<isLoading, requests, error, storeVars, completionVars,
                 permission,
                 notifiedBlockIds, now, crashed, fired, historyVars, lastOp,
                 edits>>

\* the user answers the permission prompt
PermissionAnswer(answer) ==
  /\ permissionAsked
  /\ permission' = answer
  /\ permissionAsked' = FALSE
  /\ UNCHANGED <<mutedVars, callVars>>
  /\ UNCHANGED <<appVars, storeVars, completionVars, displayVars, now, crashed,
                 fired, historyVars, lastOp, edits>>

(***************************************************************************)
(* Reload: App is constructed again from the stored records                *)
(***************************************************************************)
Reload ==
  LET loaded  == loadSchedule(storedSchedule)
      mounted == mountCompleted(storedCompleted)
  IN /\ schedule' = loaded
     /\ isLoading' = FALSE
     /\ requests' = 0
     /\ error' = NoError
     /\ reminderTime' = DefaultReminder
     /\ isMuted' = loadMuted(storedMuted)
     /\ crashed' = RenderThrows(loaded)
     /\ completedTasks' = IF crashed' THEN EmptyMap ELSE mounted.map
     /\ storedCompleted' = IF crashed' THEN storedCompleted ELSE mounted.record
     /\ storedMuted' = IF crashed' THEN storedMuted
                       ELSE saveMutedEffect(isMuted')
     /\ storedSchedule' = IF crashed'
                          THEN scheduleRecordAfterLoad(storedSchedule)
                          ELSE saveScheduleEffect(loaded, storedSchedule)
     /\ permissionAsked' = FALSE
     \* a new page: the timers of the previous one ended with it
     /\ notifiedBlockIds' = {}
     /\ reminderTimers' = IF /\ ~crashed'
                              /\ ReminderArmed(loaded, DefaultReminder, permission)
                           THEN 1 ELSE 0
     /\ clockTimers' = IF loaded # Null /\ ~crashed' THEN 1 ELSE 0
     /\ timerDue' = IF reminderTimers' > 0 THEN now + 1 ELSE 0
     /\ armedSince' = IF reminderTimers' > 0 THEN now ELSE 0
     /\ priorSchedule' = Null
     /\ priorCompleted' = EmptyMap
     /\ fired' = NoneFired
     /\ lastOp' = IF Corrupt \in {storedSchedule, storedCompleted, storedMuted}
                  THEN "recover" ELSE "reload"
     /\ UNCHANGED <<permission, now, edits, callVars>>

\* the operations on the schedule and the completion map
StoreOps ==
  \/ \E p \in Positions, t \in NewTexts : UpdateTaskText(p.blockId, p.taskIndex, t)
  \/ \E p \in Positions, n \in NewNotes : UpdateTaskNotes(p.blockId, p.taskIndex, n)
  \/ \E p \in Positions : DeleteTask(p.blockId, p.taskIndex)
  \/ \E source \in Positions, destination \in Positions :
       ReorderTasks(source, destination)
  \/ \E p \in Positions : ToggleTask(p.blockId, p.taskIndex)
  \/ ClearCompletedTasks

\* the tasks PlannerDisplay renders: each has its edit, notes, delete and
\* drag controls and its checkbox
ShownPositions ==
  IF schedule = Null THEN {}
  ELSE {p \in Positions : TaskShown(p.blockId, p.taskIndex)}

\* where a dragged task can be dropped: on a rendered task, or on the list
\* of a block, which passes block.tasks.length
DropTargets ==
  IF schedule = Null THEN {}
  ELSE {p \in Positions :
          /\ FindBlock(schedule.blocks, p.blockId) # 0
          /\ p.taskIndex
               <= Len(schedule.blocks[FindBlock(schedule.blocks, p.blockId)].tasks)}

\* handleDrop with a dragged task: onReorderTasks(draggedTask, destination)
handleDrop(currentSchedule, draggedTask, destBlockId, destTaskIndex) ==
  handleReorderTasks(currentSchedule, draggedTask,
                     [blockId |-> destBlockId, taskIndex |-> destTaskIndex])

\* One drop.  On the list of a block (below its items) the list's onDrop
\* runs handleDrop with block.tasks.length.  On a task item the item's
\* onDrop runs handleDrop with the item's index, and the event then bubbles
\* to the list, whose onDrop runs handleDrop again: with the same dragged
\* position and the length from the same render.  Both updates are queued
\* on the schedule and applied in order.
onDrop(currentSchedule, draggedTask, target) ==
  LET blocks == currentSchedule.blocks
      length == Len(blocks[FindBlock(blocks, target.blockId)].tasks)
  IN IF target.taskIndex < length
     THEN handleDrop(handleDrop(currentSchedule, draggedTask,
                                target.blockId, target.taskIndex),
                     draggedTask, target.blockId, length)
     ELSE handleDrop(currentSchedule, draggedTask, target.blockId, length)

\* a rendered task is dragged and dropped on a task item or on a list
DropTask(source, target) ==
  /\ CanEdit
  /\ CommitSchedule(onDrop(schedule, source, target))
  /\ Edited("dropTask")
  /\ UNCHANGED <<mutedVars, callVars>>
  /\ UNCHANGED <<appVars, completionVars, permissionVars, now, fired>>

\* the store operations as PlannerDisplay calls them, for inline edits that
\* save one of the given texts
DisplayEdits(texts) ==
  \/ \E p \in ShownPositions, t \in texts :
       SaveEditing(p.blockId, p.taskIndex, t)
  \/ \E p \in ShownPositions, n \in NewNotes :
       UpdateTaskNotes(p.blockId, p.taskIndex, n)
  \/ \E p \in ShownPositions : DeleteTask(p.blockId, p.taskIndex)
  \/ \E source \in ShownPositions, target \in DropTargets :
       DropTask(source, target)
  \/ \E p \in ShownPositions : ToggleTask(p.blockId, p.taskIndex)
  \/ ClearCompletedTasks

DisplayOps == DisplayEdits(NewTexts)

Generation ==
  \/ HandleGenerate
  \/ \E content \in Docs : GenerateSuccess(content)
  \/ GenerateFail

Reminders ==
  \/ ReminderTick
  \/ Advance
  \/ \E minutes \in ReminderOptions : ReminderChange(minutes)
  \/ \E answer \in {"granted", "denied"} : PermissionAnswer(answer)

\* The whole program: generation, the store as the display drives it, the
\* clock and the reminders.
Next ==
  \/ Generation
  \/ (edits < MaxTimedEdits /\ DisplayOps)
  \/ Reminders
  \/ Reload

Spec == Init /\ [][Next]_vars

\* The planner view without the clock: generation, reload and the store
\* as the display drives it, with inline edits that may be blank.
DisplayNext ==
  \/ Generation
  \/ (edits < MaxEdits /\ DisplayEdits(EditingTexts))
  \/ Reload

DisplaySpec == Init /\ [][DisplayNext]_vars

\* setIsMuted(prev => !prev), then the save-muted effect
ToggleMute ==
  /\ ~crashed
  /\ isMuted' = ~isMuted
  /\ storedMuted' = saveMutedEffect(isMuted')
  /\ UNCHANGED <<appVars, storeVars, completionVars, permissionVars,
                 displayVars, now, crashed, fired, historyVars, lastOp, edits,
                 callVars>>

\* the environment: something other than the app leaves text that is not
\* JSON in one of the three records
CorruptRecord(key) ==
  /\ storedSchedule' = IF key = "schedule" THEN Corrupt ELSE storedSchedule
  /\ storedCompleted' = IF key = "completed" THEN Corrupt ELSE storedCompleted
  /\ storedMuted' = IF key = "muted" THEN Corrupt ELSE storedMuted
  /\ UNCHANGED <<appVars, schedule, completedTasks, isMuted, permissionVars,
                 displayVars, now, crashed, fired, historyVars, lastOp, edits,
                 callVars>>

RecordKeys == {"schedule", "completed", "muted"}

\* The store explored further, with the clock stopped and the reminder
\* settings left alone: no store operation reads what Reminders changes
\* except to re-create the reminder interval.
StoreNext ==
  \/ Generation
  \/ (edits < MaxEdits /\ StoreOps)
  \/ Reload

StoreSpec == Init /\ [][StoreNext]_vars

\* Startup from records the environment may have corrupted.
StartupNext ==
  \/ Generation
  \/ (edits < MaxTimedEdits /\ StoreOps)
  \/ ToggleMute
  \/ \E key \in RecordKeys : CorruptRecord(key)
  \/ Reload

StartupSpec == Init /\ [][StartupNext]_vars

(***************************************************************************)
(* The utility functions called on their own                               *)
(***************************************************************************)
RECURSIVE Concat(_)
Concat(parts) ==
  IF parts = <<>> THEN <<>> ELSE Head(parts) \o Concat(Tail(parts))

\* what documents are made of: the bold delimiter, the colon, white space,
\* the AM token, other text, the line break
Tokens == {<<"*", "*">>, <<":">>, <<" ">>, <<"A", "M">>, <<"x">>, <<"\n">>}

Documents ==
  {Concat(parts) : parts \in UNION {[1..n -> Tokens] : n \in 0..MaxTokens}}

TwoDigits(n) == <<ToString(n \div 10), ToString(n % 10)>>

HourText(h, padded) ==
  IF h >= 10 \/ padded THEN TwoDigits(h) ELSE <<ToString(h)>>

Periods == {[text |-> <<"A", "M">>, pm |-> FALSE],
            [text |-> <<"a", "m">>, pm |-> FALSE],
            [text |-> <<"P", "M">>, pm |-> TRUE],
            [text |-> <<"P", "m">>, pm |-> TRUE]}

\* a time of day as the planner writes it: "7:05 PM", "07:05PM", ...
ClockText(h, m, padded, gap, period) ==
  HourText(h, padded) \o <<":">> \o TwoDigits(m) \o gap \o period.text

\* "garbage", "7:05", "7 PM", "7:5 PM", ":05 PM", "7.05 PM", "7:05 P"
NoClockTexts ==
  {<<"g", "a", "r", "b", "a", "g", "e">>,
   <<"7", ":", "0", "5">>,
   <<"7", " ", "P", "M">>,
   <<"7", ":", "5", " ", "P", "M">>,
   <<":", "0", "5", " ", "P", "M">>,
   <<"7", ".", "0", "5", " ", "P", "M">>,
   <<"7", ":", "0", "5", " ", "P">>,
   <<" ">>}

\* the ends a time range is made of: "7:00 AM", " 8:15 pm ", "8 PM",
\* "Later" and the empty text
RangeEnds ==
  {<<"7", ":", "0", "0", " ", "A", "M">>,
   <<" ", "8", ":", "1", "5", " ", "p", "m", " ">>,
   <<"8", " ", "P", "M">>,
   <<"L", "a", "t", "e", "r">>,
   <<>>}

TimeRanges ==
  {Join(parts, <<"-">>) :
     parts \in UNION {[1..n -> RangeEnds] : n \in 1..MaxParts}}

ParserCalls == {[fn |-> "parsePlannerContent", arg |-> d] : d \in Documents}

\* clock is what the text was written from, Null for a text without a time
TimeCalls ==
  {[fn |-> "parseTime", arg |-> ClockText(h, m, padded, gap, period),
    clock |-> [h |-> h, m |-> m, pm |-> period.pm]] :
     h \in 1..12, m \in 0..59, padded \in BOOLEAN,
     gap \in {<<>>, <<" ">>}, period \in Periods}
  \cup {[fn |-> "parseTime", arg |-> s, clock |-> Null] :
          s \in NoClockTexts \cup {<<>>}}

CalendarCalls ==
  {[fn |-> "handleAddToCalendar",
    arg |-> [id |-> 0, time |-> range, title |-> <<"T">>, tasks |-> <<>>]] :
     range \in TimeRanges}

UtilityInit ==
  /\ Mounted
  /\ call \in ParserCalls \cup TimeCalls \cup CalendarCalls
  /\ result = NotReturned

CallParsePlannerContent ==
  /\ call.fn = "parsePlannerContent"
  /\ ~result.returned
  /\ result' = Returned(parsePlannerContent(call.arg))
  /\ UNCHANGED <<programVars, call>>

CallParseTime ==
  /\ call.fn = "parseTime"
  /\ ~result.returned
  /\ result' = Returned(parseTime(call.arg))
  /\ UNCHANGED <<programVars, call>>

\* the handler calls no setter and writes no record
CallAddToCalendar ==
  /\ call.fn = "handleAddToCalendar"
  /\ ~result.returned
  /\ result' = Returned(handleAddToCalendar(call.arg))
  /\ UNCHANGED <<programVars, call>>

UtilityNext ==
  \/ CallParsePlannerContent
  \/ CallParseTime
  \/ CallAddToCalendar

UtilitySpec == UtilityInit /\ [][UtilityNext]_vars

(***************************************************************************)
(* Properties                                                              *)
(***************************************************************************)
Task(text) == [text |-> text, notes |-> <<>>]

\* a block's identity: what no edit may change
Header(block) == [id |-> block.id, time |-> block.time, title |-> block.title]

Headers(blocks) == [k \in 1..Len(blocks) |-> Header(blocks[k])]

\* tasks without its entry at position k (1-based)
Without(tasks, k) ==
  [j \in 1..(Len(tasks) - 1) |-> IF j < k THEN tasks[j] ELSE tasks[j + 1]]

RECURSIVE TaskCount(_)
TaskCount(blocks) ==
  IF blocks = <<>> THEN 0 ELSE Len(Head(blocks).tasks) + TaskCount(Tail(blocks))

\* the position of the block with this id, 0 if there is none
BlockAt(blocks, blockId) ==
  IF \E k \in 1..Len(blocks) : blocks[k].id = blockId
  THEN CHOOSE k \in 1..Len(blocks) : blocks[k].id = blockId
  ELSE 0

\* the task at (blockId, taskIndex) exists
TaskExists(blocks, blockId, taskIndex) ==
  /\ BlockAt(blocks, blockId) # 0
  /\ taskIndex < Len(blocks[BlockAt(blocks, blockId)].tasks)

\* the n-th smallest element of a set of numbers
Nth(S, n) == CHOOSE x \in S : Cardinality({y \in S : y < x}) = n - 1

\* the blocks the spec gives for its example document
ExpectedExample ==
  <<[id |-> 0,
     time |-> <<"7", ":", "0", "0", " ", "A", "M", " ", "-", " ", "8", ":",
             "0", "0", " ", "A", "M">>,
     title |-> <<"M", "o", "r", "n", "i", "n", "g">>,
     tasks |-> <<Task(<<"E", "a", "t", " ", "b", "r", "e", "a", "k", "f",
                      "a", "s", "t">>),
                 Task(<<"B", "r", "u", "s", "h", " ", "t", "e", "e", "t",
                      "h">>)>>],
    [id |-> 1,
     time |-> <<"8", ":", "0", "0", " ", "A", "M", " ", "-", " ", "9", ":",
             "0", "0", " ", "A", "M">>,
     title |-> <<"W", "o", "r", "k", ":", " ", "D", "e", "e", "p", " ", "F",
              "o", "c", "u", "s">>,
     tasks |-> <<Task(<<"W", "r", "i", "t", "e", " ", "r", "e", "p", "o",
                      "r", "t">>)>>]>>

\* C1: parsePlannerContent applied to the example document returns block 0
\* "7:00 AM - 8:00 AM" / "Morning" with tasks [Eat breakfast, Brush teeth]
\* and block 1 "8:00 AM - 9:00 AM" / "Work: Deep Focus" with tasks
\* [Write report]: the bullet lines after a bold header are its tasks.
\* The code splits on "**", which also ends the header: the bullets land in
\* a fragment of their own that has no colon and is dropped.
C1_ExampleParsed ==
  [][GenerateSuccess(ExampleDoc) => schedule' = Some(ExpectedExample)]_vars

\* C2 as stated: after handleGenerate ran on a schedule S with completion
\* map M and the request failed, the schedule is still S, the map still M
\* and the stored record still holds S.
C2_PriorStatePreserved ==
  (lastOp = "failed" /\ priorSchedule # Null)
    => /\ schedule = priorSchedule
       /\ completedTasks = priorCompleted
       /\ storedSchedule = Stored(priorSchedule.blocks)

\* C2, amended: handleGenerate discards the schedule, the completion map
\* and the stored schedule record before the request is sent, and a failure
\* does not bring them back: after a failed request the schedule is null,
\* the map is empty, the record is absent, the loading flag is cleared and
\* the error message is set.
C2_FailureLeavesDiscarded ==
  error = GenerationError
    => /\ schedule = Null
       /\ completedTasks = EmptyMap
       /\ storedSchedule = Absent
       /\ ~isLoading

\* a request failed that was started on a schedule with completion flags
C2_FailedAfterSchedule ==
  /\ lastOp = "failed"
  /\ error = GenerationError
  /\ priorSchedule # Null
  /\ priorCompleted # EmptyMap

\* C3: within the lifetime of one generated schedule each block fires at
\* most one reminder notification, whatever edits are interleaved.
\* (fired counts the notifications since the schedule was generated or
\* loaded.)  The reset effect depends on the blocks array, which every
\* store operation replaces: the notified set is emptied by each edit.
C3_AtMostOneReminder == \A b \in BlockIds : fired[b] <= 1

\* C4: a new schedule never appears together with completion flags set
\* before its generation started: while the request is pending the map and
\* its stored record are empty, and they still are in the state in which
\* the generated schedule becomes visible.
C4_NoStaleCompletion ==
  [][/\ isLoading' => /\ completedTasks' = EmptyMap
                      /\ storedCompleted' = Stored(EmptyMap)
     /\ (isLoading /\ schedule' # Null)
          => /\ completedTasks' = EmptyMap
             /\ storedCompleted' = Stored(EmptyMap)]_vars

\* a generated schedule is visible; the schedule it replaced had flags set
C4_ReplacedFlaggedSchedule ==
  /\ lastOp = "generated"
  /\ schedule # Null /\ ~isLoading
  /\ priorSchedule # Null
  /\ \E k \in DOMAIN priorCompleted : priorCompleted[k]

\* reorderTask is called with ids that exist and a source task that exists
ReorderValid(source, destination) ==
  /\ schedule # Null
  /\ TaskExists(schedule.blocks, source.blockId, source.taskIndex)
  /\ BlockAt(schedule.blocks, destination.blockId) # 0

\* the destination list once the task is taken out (the list the insertion
\* index refers to)
DestinationBase(old, source, destination) ==
  LET sb == BlockAt(old, source.blockId)
      db == BlockAt(old, destination.blockId)
  IN IF sb = db THEN Without(old[sb].tasks, source.taskIndex + 1)
     ELSE old[db].tasks

\* new is old with exactly the source task moved to position at (0-based)
\* of the destination list
MovedTo(old, new, source, destination, at) ==
  LET sb   == BlockAt(old, source.blockId)
      db   == BlockAt(old, destination.blockId)
      task == old[sb].tasks[source.taskIndex + 1]
      base == DestinationBase(old, source, destination)
  IN /\ Headers(new) = Headers(old)
     /\ \A k \in 1..Len(old) : k \notin {sb, db} => new[k].tasks = old[k].tasks
     /\ sb # db => new[sb].tasks = Without(old[sb].tasks, source.taskIndex + 1)
     /\ Len(new[db].tasks) = Len(base) + 1
     /\ at < Len(new[db].tasks)
     /\ new[db].tasks[at + 1] = task
     /\ \A j \in 1..at : new[db].tasks[j] = base[j]
     /\ \A j \in (at + 2)..(Len(base) + 1) : new[db].tasks[j] = base[j - 1]
     /\ TaskCount(new) = TaskCount(old)

\* C5 as stated: with both ids and the source task existing, the task is
\* taken out of the source block and occupies destination.taskIndex of the
\* destination block, later tasks shifted right, the count conserved.
C5_InsertedAtDestinationIndex ==
  CanEdit
    => \A source \in Positions, destination \in Positions :
         ReorderValid(source, destination)
           => MovedTo(schedule.blocks,
                      handleReorderTasks(schedule, source, destination).blocks,
                      source, destination, destination.taskIndex)

\* C5, amended: the task occupies destination.taskIndex only when that
\* index is at most the length of the destination list after the removal;
\* a larger index (the list's onDrop passes the length before the removal)
\* appends the task at the end.  Everything else is as stated.
C5_InsertedAtClampedIndex ==
  CanEdit
    => \A source \in Positions, destination \in Positions :
         ReorderValid(source, destination)
           => MovedTo(schedule.blocks,
                      handleReorderTasks(schedule, source, destination).blocks,
                      source, destination,
                      Min({destination.taskIndex,
                           Len(DestinationBase(schedule.blocks, source,
                                               destination))}))

\* task a of the first block was moved behind task c of the second
C5_MovedAcrossBlocks ==
  /\ lastOp = "reorderTask"
  /\ ~crashed
  /\ schedule # Null
  /\ Len(schedule.blocks) = 2
  /\ schedule.blocks[1].tasks = <<Task(<<"b">>)>>
  /\ schedule.blocks[2].tasks = <<Task(<<"c">>), Task(<<"a">>)>>

\* new is old without the task at (blockId, taskIndex), and old itself if
\* there is no such task
TaskRemoved(old, new, blockId, taskIndex) ==
  /\ Headers(new) = Headers(old)
  /\ \A k \in 1..Len(old) :
       new[k].tasks =
         IF old[k].id = blockId /\ taskIndex < Len(old[k].tasks)
         THEN Without(old[k].tasks, taskIndex + 1)
         ELSE old[k].tasks
  /\ ~TaskExists(old, blockId, taskIndex) => new = old

\* C6: deleteTask(blockId, taskIndex) leaves every block's header alone,
\* replaces the task list of the block with that id by the list without
\* position taskIndex, and leaves every other list alone; with an id or an
\* index that does not exist the schedule is unchanged.
C6_DeleteRemovesExactlyOne ==
  CanEdit
    => \A p \in Positions :
         TaskRemoved(schedule.blocks,
                     handleDeleteTask(schedule, p.blockId, p.taskIndex).blocks,
                     p.blockId, p.taskIndex)

\* task a was deleted from the first block; b moved up, c is untouched
C6_DeletedFirstTask ==
  /\ lastOp = "deleteTask"
  /\ schedule # Null
  /\ Len(schedule.blocks) = 2
  /\ schedule.blocks[1].tasks = <<Task(<<"b">>)>>
  /\ schedule.blocks[2].tasks = <<Task(<<"c">>)>>

\* new is old with one field of the task at (blockId, taskIndex) set to
\* value and nothing else changed; old itself if there is no such task
FieldUpdated(old, new, blockId, taskIndex, field, value) ==
  LET b == BlockAt(old, blockId)
  IN /\ Headers(new) = Headers(old)
     /\ \A k \in 1..Len(old) :
          /\ Len(new[k].tasks) = Len(old[k].tasks)
          /\ \A j \in 1..Len(old[k].tasks) :
               new[k].tasks[j] =
                 IF k = b /\ j = taskIndex + 1
                 THEN IF field = "text"
                      THEN [text |-> value, notes |-> old[k].tasks[j].notes]
                      ELSE [text |-> old[k].tasks[j].text, notes |-> value]
                 ELSE old[k].tasks[j]
     /\ ~TaskExists(old, blockId, taskIndex) => new = old

\* C7: updateTaskText (updateTaskNotes) changes only the text (notes) of
\* the task at (blockId, taskIndex); the task's other field, every other
\* task, every header and every count stay; without such a task the
\* schedule is unchanged.
C7_UpdateChangesOneField ==
  CanEdit
    => \A p \in Positions :
         /\ \A t \in NewTexts :
              FieldUpdated(schedule.blocks,
                           handleUpdateTaskText(schedule, p.blockId,
                                                p.taskIndex, t).blocks,
                           p.blockId, p.taskIndex, "text", t)
         /\ \A n \in NewNotes :
              FieldUpdated(schedule.blocks,
                           handleUpdateTaskNotes(schedule, p.blockId,
                                                 p.taskIndex, n).blocks,
                           p.blockId, p.taskIndex, "notes", n)

\* a task got new notes and then a new text; its neighbour is as parsed
C7_TextAndNotesUpdated ==
  /\ lastOp = "updateTaskText"
  /\ schedule # Null
  /\ Len(schedule.blocks) = 2
  /\ schedule.blocks[1].tasks =
       <<[text |-> <<"x">>, notes |-> <<"n">>], Task(<<"b">>)>>

\* the positions (1-based) of the tasks of a block whose key is not true
Surviving(block) ==
  {j \in 1..Len(block.tasks) :
     LET key == TaskKey(block.id, j - 1)
     IN ~(key \in DOMAIN completedTasks /\ completedTasks[key] = TRUE)}

\* C8: clearCompletedTasks keeps every block, and of each block exactly
\* the tasks whose key "{blockId}-{taskIndex}" is absent or false, in
\* their order.
C8_ClearRemovesExactlyCompleted ==
  CanEdit
    => LET old == schedule.blocks
           new == handleClearCompletedTasks(schedule, completedTasks).blocks
       IN /\ Headers(new) = Headers(old)
          /\ \A k \in 1..Len(old) :
               /\ Len(new[k].tasks) = Cardinality(Surviving(old[k]))
               /\ \A n \in 1..Len(new[k].tasks) :
                    new[k].tasks[n] = old[k].tasks[Nth(Surviving(old[k]), n)]

\* the only task of the second block was completed and cleared: the block
\* is still there, empty, and the first block kept its tasks
C8_ClearedBlockIsKept ==
  /\ lastOp = "clearCompletedTasks"
  /\ schedule # Null
  /\ Len(schedule.blocks) = 2
  /\ schedule.blocks[1].tasks = <<Task(<<"a">>), Task(<<"b">>)>>
  /\ schedule.blocks[2].tasks = <<>>
  /\ completedTasks = EmptyMap

IdsDistinct(blocks) ==
  \A i \in 1..Len(blocks), j \in 1..Len(blocks) :
    blocks[i].id = blocks[j].id => i = j

\* C9: the ids of a schedule are pairwise distinct, and no step from a
\* schedule to a schedule (an edit, a delete, a reorder, a clear) changes
\* the sequence of (id, time, title): it stays the one the parser produced.
C9_BlockIdentityStable ==
  [][/\ schedule' # Null => IdsDistinct(schedule'.blocks)
     /\ (schedule # Null /\ schedule' # Null)
          => Headers(schedule'.blocks) = Headers(schedule.blocks)]_vars

\* two store operations removed tasks from the schedule parsed from
\* OpenDoc; its headers are the parsed ones
C9_EditedTwice ==
  /\ edits >= 2
  /\ lastOp \in {"deleteTask", "clearCompletedTasks"}
  /\ schedule # Null
  /\ Headers(schedule.blocks) = Headers(parsePlannerContent(OpenDoc))
  /\ TaskCount(schedule.blocks) < 3

\* C10: whenever the effects of the last operation have run (the tree is
\* mounted), the stored schedule record holds the schedule in memory, and
\* is absent when that is null: reloading restores exactly the schedule.
C10_StoredMirrorsSchedule ==
  ~crashed
    => /\ storedSchedule = IF schedule = Null THEN Absent
                           ELSE Stored(schedule.blocks)
       /\ loadSchedule(storedSchedule) = schedule

\* a reorder was saved: the record holds the reordered schedule
C10_ReorderSaved ==
  /\ lastOp = "reorderTask"
  /\ ~crashed
  /\ schedule # Null
  /\ Len(schedule.blocks) = 2
  /\ schedule.blocks[1].tasks = <<Task(<<"b">>), Task(<<"a">>)>>
  /\ storedSchedule = Stored(schedule.blocks)

\* C11: a reload keeps the completion flags: after the startup load and
\* save effects the map in memory is the map from before the reload, and
\* so is the stored record.
C11_FlagsSurviveReload ==
  [][Reload => /\ completedTasks' = completedTasks
               /\ storedCompleted' = Stored(completedTasks)]_vars

\* the app was reloaded with a task marked completed
C11_ReloadedWithFlag ==
  /\ lastOp = "reload"
  /\ schedule # Null
  /\ \E k \in DOMAIN completedTasks : completedTasks[k]
  /\ storedCompleted = Stored(completedTasks)

\* C12 as stated: at startup a record that is not valid JSON is caught,
\* the value in memory is the default, the record is deleted, and startup
\* does not fail.
C12_CorruptRecordsDeleted ==
  [][Reload
       => /\ ~crashed'
          /\ storedSchedule = Corrupt
               => (schedule' = Null /\ storedSchedule' = Absent)
          /\ storedMuted = Corrupt
               => (isMuted' = FALSE /\ storedMuted' = Absent)
          /\ storedCompleted = Corrupt
               => (completedTasks' = EmptyMap /\ storedCompleted' = Absent)]_vars

\* C12, amended: only the schedule record is deleted; a corrupt muted flag
\* or completion map is not deleted but overwritten, by the save effects of
\* the first commit, with the text of the default (false, {}).
C12_CorruptRecordsReplaced ==
  [][Reload
       => /\ ~crashed'
          /\ storedSchedule = Corrupt
               => (schedule' = Null /\ storedSchedule' = Absent)
          /\ storedMuted = Corrupt
               => (isMuted' = FALSE /\ storedMuted' = Stored(FALSE))
          /\ storedCompleted = Corrupt
               => /\ completedTasks' = EmptyMap
                  /\ storedCompleted' = Stored(EmptyMap)]_vars

\* the app started from corrupt records and runs with the defaults
C12_RecoveredFromCorruption ==
  /\ lastOp = "recover"
  /\ ~crashed
  /\ storedMuted = Stored(FALSE)
  /\ storedCompleted = Stored(EmptyMap)
  /\ storedSchedule = Absent

\* the step shows a notification for the block with id b
Notifies(b) == fired'[b] > fired[b]

\* now is inside the reminder window of block: notifyAt <= now < startTime
InWindow(block, lead, time) ==
  LET startTime == BlockStartTime(block)
  IN /\ startTime # Null
     /\ (startTime.minutes - lead) * TicksPerMinute <= time
     /\ time < startTime.minutes * TicksPerMinute

\* C13: a notification for a block is shown only at a tick inside the
\* block's window, notifyAt <= now < startTime with notifyAt = startTime
\* minus the lead time: never earlier, never at or after the start.
C13_NotifiedOnlyInWindow ==
  [][\A b \in BlockIds :
       Notifies(b)
         => \E i \in 1..Len(schedule.blocks) :
              /\ schedule.blocks[i].id = b
              /\ InWindow(schedule.blocks[i], reminderTime, now)]_vars

\* the second block was notified inside its window; the window of the
\* first passed before a tick landed in it, and it stays unnotified
C13_NotifiedOneMissedOne ==
  /\ DisplayMounted
  /\ intervalActive
  /\ Len(schedule.blocks) = 2
  /\ fired[1] = 1
  /\ fired[0] = 0
  /\ 0 \notin notifiedBlockIds
  /\ BlockStartTime(schedule.blocks[1]) # Null
  /\ now >= BlockStartTime(schedule.blocks[1]).minutes * TicksPerMinute

\* C14: with a lead time of zero, or without the permission to notify, the
\* reminder check does not run: no interval exists in such a state, and no
\* step taken from such a state notifies a block or adds one to the
\* notified set.
C14_NoReminderWhenDisabled ==
  [][/\ intervalActive' => (reminderTime' # 0 /\ permission' = "granted")
     /\ (reminderTime = 0 \/ permission # "granted")
          => /\ \A b \in BlockIds : ~Notifies(b)
             /\ notifiedBlockIds' \subseteq notifiedBlockIds]_vars

\* the planner is shown with a block inside its window and a positive lead
\* time, but the permission was denied: nothing runs, nothing is notified
C14_DeniedInsideWindow ==
  /\ DisplayMounted
  /\ permission = "denied"
  /\ reminderTime > 0
  /\ now > InitialNow
  /\ \E i \in 1..Len(schedule.blocks) :
       InWindow(schedule.blocks[i], reminderTime, now)
  /\ ~intervalActive
  /\ notifiedBlockIds = {}
  /\ fired = NoneFired

\* the start time of the block (the part of time before the first '-')
\* does not parse
Unparseable(block) == parseTime(Head(Split(block.time, <<"-">>))) = Null

\* C15: a block whose start time fails to parse is never notified: it is
\* never in the notified set and no notification is ever shown for it.
C15_UnparseableNeverNotified ==
  schedule # Null
    => \A i \in 1..Len(schedule.blocks) :
         Unparseable(schedule.blocks[i])
           => /\ schedule.blocks[i].id \notin notifiedBlockIds
              /\ fired[schedule.blocks[i].id] = 0

\* a tick notified the second block of UntimedDoc and skipped the first,
\* whose time "Later" does not parse
C15_SkippedUntimedBlock ==
  /\ DisplayMounted
  /\ intervalActive
  /\ Len(schedule.blocks) = 2
  /\ Unparseable(schedule.blocks[1])
  /\ ~Unparseable(schedule.blocks[2])
  /\ notifiedBlockIds = {schedule.blocks[2].id}
  /\ fired[schedule.blocks[2].id] = 1

ParserReturned == call.fn = "parsePlannerContent" /\ result.returned

\* the fragments of the document that are non-empty after trimming and
\* contain a colon, in document order
KeptFragments(content) ==
  LET kept(fragment) ==
        /\ \E i \in 1..Len(fragment) : fragment[i] \notin WhiteSpace
        /\ \E i \in 1..Len(fragment) : fragment[i] = ":"
  IN SelectSeq(Split(content, <<"*", "*">>), kept)

\* C16: parsePlannerContent returns one block per fragment (of the split on
\* "**") that is non-empty after trimming and contains a colon, in document
\* order and with the ids 0, 1, ..., n-1; the empty document gives the
\* empty sequence.
C16_OneBlockPerFragment ==
  ParserReturned
    => LET kept   == KeptFragments(call.arg)
           blocks == result.value
       IN /\ Len(blocks) = Len(kept)
          /\ \A i \in 1..Len(blocks) :
               /\ blocks[i].id = i - 1
               /\ blocks[i] = ParseBlock(kept[i], i - 1)
          /\ call.arg = <<>> => blocks = <<>>

\* a document of three fragments: a block, a fragment without a colon and
\* another block, numbered 0 and 1
C16_SkippedFragmentLeavesNoGap ==
  /\ ParserReturned
  /\ Len(Split(call.arg, <<"*", "*">>)) = 3
  /\ ~Includes(Split(call.arg, <<"*", "*">>)[2], ":")
  /\ Len(result.value) = 2
  /\ result.value[1].id = 0
  /\ result.value[2].id = 1

\* the header line of a fragment: block.trim().split('\n')[0]
HeaderLine(fragment) == Head(Split(Trim(fragment), <<"\n">>))

\* C17: a header line that matches the primary pattern gets the text up to
\* and including the AM/PM as its time and the trimmed remainder as its
\* title; the first-colon fallback is applied only to the header lines that
\* do not match the primary pattern.
C17_FallbackOnlyWithoutMatch ==
  ParserReturned
    => LET kept == KeptFragments(call.arg)
       IN \A i \in 1..Len(result.value) :
            LET line  == HeaderLine(kept[i])
                match == HeaderMatch(line)
                parts == Split(line, <<":">>)
                block == result.value[i]
            IN IF match.matched
               THEN /\ block.time = Trim(match.g1)
                    /\ block.title = Trim(match.g2)
               ELSE /\ block.time = Trim(Head(parts))
                    /\ block.title = Trim(Join(Tail(parts), <<":">>))

TimeReturned == call.fn = "parseTime" /\ result.returned

\* the hour of the day the claim gives for a 12-hour time
Hour24(h, pm) ==
  IF pm THEN (IF h = 12 THEN 12 ELSE h + 12) ELSE (IF h = 12 THEN 0 ELSE h)

\* C18: for every hour 1..12, minute 0..59 and period AM or PM in any letter
\* case parseTime returns that minute and the hour in 24-hour form (12 AM is
\* 0, 12 PM is 12, other PM hours add 12); for the empty text and a text
\* without the H:MM AM|PM pattern it returns null.
C18_TwelveHourClockConverted ==
  TimeReturned
    => IF call.clock = Null
       THEN result.value = Null
       ELSE /\ result.value # Null
            /\ result.value.minutes \div 60 = Hour24(call.clock.h, call.clock.pm)
            /\ result.value.minutes % 60 = call.clock.m

\* "12:30am" was parsed: half past midnight
C18_ParsedHalfPastMidnight ==
  /\ TimeReturned
  /\ call.arg = <<"1", "2", ":", "3", "0", "a", "m">>
  /\ result.value = [minutes |-> 30]

CalendarReturned == call.fn = "handleAddToCalendar" /\ result.returned

\* the range has two parts at least and its first two parts parse
BothEndsParse(time) ==
  LET parts == Split(time, <<"-">>)
  IN /\ Len(parts) >= 2
     /\ parseTime(parts[1]) # Null
     /\ parseTime(parts[2]) # Null

\* C19: the calendar export produces a document if and only if both ends
\* of the block's time range parse; otherwise it reports an error and
\* produces no document. Either way the schedule, the completion map and
\* their records are what they were before the call.
C19_ExportIffBothEndsParse ==
  CalendarReturned
    => /\ (result.value.document # Null) <=> BothEndsParse(call.arg.time)
       /\ result.value.alert <=> (result.value.document = Null)
       /\ schedule = Null /\ storedSchedule = Absent
       /\ completedTasks = EmptyMap /\ storedCompleted = Stored(EmptyMap)

\* the export of "7:00 AM-8 PM" was refused: the start parses, the end
\* does not
C19_RefusedForUnparseableEnd ==
  /\ CalendarReturned
  /\ Len(Split(call.arg.time, <<"-">>)) = 2
  /\ parseTime(Split(call.arg.time, <<"-">>)[1]) # Null
  /\ parseTime(Split(call.arg.time, <<"-">>)[2]) = Null
  /\ result.value = ExportRefused

\* C20: no timer outlives the planner view: while the view is unmounted
\* neither a reminder interval nor a clock interval is live, so no tick can
\* fire after the teardown; and re-creating the reminder effect clears the
\* previous interval first, so at most one interval of each kind is live.
C20_NoTimerAfterTeardown ==
  /\ reminderTimers <= 1
  /\ clockTimers <= 1
  /\ ~DisplayMounted => (reminderTimers = 0 /\ clockTimers = 0)

\* handleGenerate tore the view down while reminders were enabled for a
\* schedule with blocks, after the clock had moved on: no timer is left
C20_TornDownWithRemindersEnabled ==
  /\ lastOp = "generate"
  /\ ~DisplayMounted
  /\ priorSchedule # Null
  /\ Len(priorSchedule.blocks) > 0
  /\ permission = "granted"
  /\ reminderTime > 0
  /\ now > InitialNow
  /\ reminderTimers = 0
  /\ clockTimers = 0

\* C21: at most one generation request is in flight: isLoading is true
\* exactly while a request has not settled, and handleGenerate cannot start
\* a second one meanwhile.
C21_OneRequestInFlight ==
  /\ requests <= 1
  /\ isLoading <=> (requests = 1)

\* a schedule is being replaced: the request of the second handleGenerate
\* is pending
C21_RegenerationPending ==
  /\ lastOp = "generate"
  /\ priorSchedule # Null
  /\ isLoading
  /\ requests = 1

\* C22: store operations address tasks by index: for a block with tasks at
\* i and i+1, deleteTask(b, i) followed by updateTaskText(b, i, t) gives
\* the text t to the task that was at i+1 (its notes are kept), and every
\* other task and block is as the deletion alone leaves it.
C22_UpdateAfterDeleteHitsShifted ==
  CanEdit
    => \A p \in Positions, t \in NewTexts :
         TaskExists(schedule.blocks, p.blockId, p.taskIndex + 1)
           => LET old == schedule.blocks
                  b   == BlockAt(old, p.blockId)
                  i   == p.taskIndex + 1
                  new == handleUpdateTaskText(
                           handleDeleteTask(schedule, p.blockId, p.taskIndex),
                           p.blockId, p.taskIndex, t).blocks
              IN /\ Headers(new) = Headers(old)
                 /\ \A k \in 1..Len(old) : k # b => new[k].tasks = old[k].tasks
                 /\ Len(new[b].tasks) = Len(old[b].tasks) - 1
                 /\ new[b].tasks[i] =
                      [text |-> t, notes |-> old[b].tasks[i + 1].notes]
                 /\ \A j \in 1..Len(new[b].tasks) :
                      j # i => new[b].tasks[j] = Without(old[b].tasks, i)[j]

\* a task of the two-task block 0 was deleted and index 0 was then given
\* the text "x": the one task left in the block carries it
C22_DeletedThenRenamed ==
  /\ lastOp = "updateTaskText"
  /\ edits = 2
  /\ schedule # Null
  /\ Len(schedule.blocks) = 2
  /\ schedule.blocks[1].tasks = <<Task(<<"x">>)>>
  /\ schedule.blocks[2].tasks = <<Task(<<"c">>)>>

\* C23: reorderTask with a source block id or a destination block id that
\* is not found is a no-op: the handler returns the schedule it was given,
\* with no task removed and none inserted.
C23_ReorderWithoutBlockIsNoOp ==
  CanEdit
    => \A source \in Positions, destination \in Positions :
         (\/ BlockAt(schedule.blocks, source.blockId) = 0
          \/ BlockAt(schedule.blocks, destination.blockId) = 0)
           => handleReorderTasks(schedule, source, destination) = schedule

\* a schedule with a task at (0, 0) and no block MaxBlockId: moving that
\* task to the missing block returns the schedule as it is
C23_MoveToMissingBlock ==
  /\ CanEdit
  /\ TaskExists(schedule.blocks, 0, 0)
  /\ BlockAt(schedule.blocks, MaxBlockId) = 0
  /\ handleReorderTasks(schedule, [blockId |-> 0, taskIndex |-> 0],
                        [blockId |-> MaxBlockId, taskIndex |-> 0]) = schedule

\* C24: clearCompletedTasks resets the completion map: in the state it
\* leaves, the map and its record are empty, so no surviving task has its
\* key (on its new index) mapped to true.
C24_NoSurvivorMarkedAfterClear ==
  (lastOp = "clearCompletedTasks" /\ schedule # Null)
    => /\ completedTasks = EmptyMap
       /\ storedCompleted = Stored(EmptyMap)
       /\ \A k \in 1..Len(schedule.blocks) :
            \A j \in 1..Len(schedule.blocks[k].tasks) :
              ~IsCompleted(completedTasks,
                           TaskKey(schedule.blocks[k].id, j - 1))

\* the completed first task of block 0 was cleared: the second one slid
\* to index 0, whose key was the flagged one, and is not marked
C24_SurvivorSlidIntoFlaggedIndex ==
  /\ lastOp = "clearCompletedTasks"
  /\ edits = 2
  /\ schedule # Null
  /\ Len(schedule.blocks) = 2
  /\ schedule.blocks[1].tasks = <<Task(<<"b">>)>>
  /\ ~IsCompleted(completedTasks, TaskKey(schedule.blocks[1].id, 0))

\* C25: one drop applies reorderTask exactly once: whether the dragged task
\* is dropped on a task item or on a block's list, the schedule after the
\* drop is reorderTask(draggedTask, drop position) applied once to the
\* schedule before it, with the total task count conserved.
\* The drop handler of a task item does not stop the event, so the handler
\* of the enclosing list runs as well and reorders a second time.
C25_DropReordersOnce ==
  CanEdit
    => \A source \in ShownPositions, target \in DropTargets :
         LET after == onDrop(schedule, source, target)
         IN /\ after = handleReorderTasks(schedule, source, target)
            /\ TaskCount(after.blocks) = TaskCount(schedule.blocks)

\* C26: while the planner view stays mounted with the permission granted
\* and a lead time of at least one minute, a block with a parseable start
\* time that has not been notified is notified within one tick of now
\* reaching notifyAt, whatever edit, delete, reorder or clear-completed
\* operations come in between: once the check has been running since
\* notifyAt or before, an unnotified block is at most one tick past
\* notifyAt, and then the check of that tick is due.
\* Every such operation passes a new blocks array, which runs the reminder
\* effect again: the interval is cleared and a new one starts counting
\* its 30 seconds from the operation.
C26_NotifiedWithinOneTick ==
  (DisplayMounted /\ intervalActive /\ reminderTime >= 1)
    => \A i \in 1..Len(schedule.blocks) :
         LET block     == schedule.blocks[i]
             startTime == BlockStartTime(block)
             notifyAt  == (startTime.minutes - reminderTime) * TicksPerMinute
         IN (/\ startTime # Null
             /\ fired[block.id] = 0
             /\ armedSince <= notifyAt
             /\ now > notifyAt)
              => /\ now = notifyAt + 1
                 /\ timerDue <= now

\* the same statement for a schedule that no store operation has touched
C26_NotifiedWithinOneTickUnedited ==
  edits = 0 => C26_NotifiedWithinOneTick

\* C27: whenever the planner view is mounted with a non-empty schedule, a
\* lead time greater than zero and the permission granted, the 30-second
\* reminder check is running: also when the permission is granted, by the
\* request that handleReminderChange started, after the lead time was
\* selected.
\* The reminder effect reads Notification.permission only when it runs,
\* and the answer to the request changes none of its dependencies.
C27_ArmedWheneverEnabled ==
  (/\ DisplayMounted
   /\ Len(schedule.blocks) > 0
   /\ reminderTime > 0
   /\ permission = "granted")
    => intervalActive

\* the tasks of the block with the given id
TasksOf(blocks, blockId) == blocks[BlockAt(blocks, blockId)].tasks

\* C28: deleteTask, reorderTask, updateTaskText and updateTaskNotes leave
\* the completion map, and its stored record, unchanged.  The flags stay
\* with their positions: when deleteTask(b, i) removed a task and the key
\* "b-i" is flagged, the flag now applies to the task that was at i + 1,
\* and when there was no such task the key stays in the map without a task.
C28_EditsKeepCompletionMap ==
  [][(/\ lastOp' \in {"deleteTask", "reorderTask", "updateTaskText",
                      "updateTaskNotes"}
      /\ edits' = edits + 1)
       => /\ completedTasks' = completedTasks
          /\ storedCompleted' = storedCompleted
          /\ \A p \in Positions :
               (/\ lastOp' = "deleteTask"
                /\ TaskExists(schedule.blocks, p.blockId, p.taskIndex)
                /\ schedule' = handleDeleteTask(schedule, p.blockId, p.taskIndex)
                /\ IsCompleted(completedTasks, TaskKey(p.blockId, p.taskIndex)))
                 => /\ IsCompleted(completedTasks',
                                   TaskKey(p.blockId, p.taskIndex))
                    /\ IF TaskExists(schedule.blocks, p.blockId, p.taskIndex + 1)
                       THEN /\ TaskExists(schedule'.blocks, p.blockId, p.taskIndex)
                            /\ TasksOf(schedule'.blocks, p.blockId)[p.taskIndex + 1]
                                 = TasksOf(schedule.blocks, p.blockId)[p.taskIndex + 2]
                       ELSE ~TaskExists(schedule'.blocks, p.blockId, p.taskIndex)]_vars

\* task a of block 0 was marked completed and then deleted: the flag "0-0"
\* is still set and task b, which was never toggled, sits at index 0
C28_FlagOnSlidTask ==
  /\ lastOp = "deleteTask"
  /\ edits = 2
  /\ schedule # Null
  /\ Len(schedule.blocks) = 2
  /\ schedule.blocks[1].tasks = <<Task(<<"b">>)>>
  /\ completedTasks = MapSet(EmptyMap, TaskKey(schedule.blocks[1].id, 0), TRUE)

\* task c, the only task of block 1, was marked completed and then deleted:
\* the key "1-0" stays in the map and no task has that position
C28_OrphanFlag ==
  /\ lastOp = "deleteTask"
  /\ edits = 2
  /\ schedule # Null
  /\ Len(schedule.blocks) = 2
  /\ schedule.blocks[2].tasks = <<>>
  /\ IsCompleted(completedTasks, TaskKey(schedule.blocks[2].id, 0))

\* every entry of every task list is a task: a record with a text and a
\* notes field
WellFormed(blocks) ==
  \A i \in 1..Len(blocks) :
    \A j \in 1..Len(blocks[i].tasks) :
      blocks[i].tasks[j] \notin {Null, Undefined}

\* C29: reorderTask whose source index is not the index of a task of the
\* source block, with both block ids existing, returns the schedule
\* unchanged: nothing is inserted into the destination block, every entry
\* of every task list is still a task and the task count has not grown.
\* The code checks the two blocks only: the splice of the source removes
\* nothing, and what it did not remove, undefined, is inserted.
C29_ReorderWithoutTaskIsNoOp ==
  CanEdit
    => \A source, destination \in Positions :
         (/\ BlockAt(schedule.blocks, source.blockId) # 0
          /\ BlockAt(schedule.blocks, destination.blockId) # 0
          /\ ~TaskExists(schedule.blocks, source.blockId, source.taskIndex))
           => LET after == handleReorderTasks(schedule, source, destination)
              IN /\ after = schedule
                 /\ WellFormed(after.blocks)
                 /\ TaskCount(after.blocks) <= TaskCount(schedule.blocks)

\* no task of the schedule has a text that is empty after trimming
NoBlankText(blocks) ==
  \A i \in 1..Len(blocks) :
    \A j \in 1..Len(blocks[i].tasks) :
      blocks[i].tasks[j] \notin {Null, Undefined}
        => Trim(blocks[i].tasks[j].text) # <<>>

\* C30: saving an inline edit whose text is empty or white space only does
\* not change the schedule; saving any text leaves the edit mode, and a text
\* that is not blank is what updateTaskText is called with.  So no task of
\* the schedule shown ever has a text that is empty after trimming.
C30_BlankEditIsDiscarded ==
  /\ schedule # Null => NoBlankText(schedule.blocks)
  /\ CanEdit
       => \A p \in ShownPositions, editingText \in EditingTexts :
            LET saved == handleSaveEditing(schedule, p.blockId, p.taskIndex,
                                           editingText)
            IN /\ saved.editingTaskId = Null
               /\ saved.editingText = <<>>
               /\ saved.schedule =
                    IF Trim(editingText) = <<>>
                    THEN schedule
                    ELSE handleUpdateTaskText(schedule, p.blockId,
                                              p.taskIndex, editingText)

\* a blank inline edit was saved on the generated schedule: tasks a and b
\* are as they were parsed
C30_BlankEditSaved ==
  /\ lastOp = "saveEditing"
  /\ DisplayMounted
  /\ edits = 0
  /\ Len(schedule.blocks) = 2
  /\ schedule.blocks[1].tasks = <<Task(<<"a">>), Task(<<"b">>)>>

====
